---- MODULE Spec2Model ----
(***************************************************************************)
(* A model of the AlexNet training program: the augmentation worker        *)
(* (img_preprocessing / image_cropping), the thread-per-batch pipeline of  *)
(* the epoch loop in main.py, and the SGD optimizer of                     *)
(* optimizer_alexnet.py with its learning-rate schedule.                   *)
(*                                                                         *)
(* Three specifications share the variables:                               *)
(*   Spec     the epoch loop (training phase, evaluation phase, epoch end) *)
(*   SpecAug  one call of img_preprocessing on a drawn raw batch           *)
(*   SpecOpt  construction of the optimizer and its steps                  *)
(***************************************************************************)
EXTENDS Integers, Sequences, FiniteSets, TLC

VARIABLES
    \* ---- the epoch loop of main.py
    train_ds, test_ds,      \* the batched datasets (sequences of raw batches)
    pc,                     \* position of the main thread
    phase,                  \* "train" or "eval"
    epoch,                  \* the loop variable of `for epoch in range(NUM_EPOCHS)`
    step,                   \* enumerate()'s index: raw batches fetched in this phase
    images, labels,         \* the loop variables (images, labels)
    q, q2,                  \* the two slot lists
    isFirst,
    threads,                \* the threading.Thread objects created in this phase
    t,                      \* the variable t: index in threads of the last one created
    slot_src,               \* history: the raw batch each item of the current list came from
    batch_ds,               \* train_batch_ds / test_batch_ds: sub-batches not yet stepped
    cur,                    \* history: the augmented batch being consumed: id, size, samples stepped
    log,                    \* history: the events of the current phase, in order
    error,                  \* the exception that ended the run, or "none"
    prev_test_accuracy, test_accuracy,
    \* ---- the learning-rate schedule and the optimizer
    learning_rate_fn,       \* the AlexNetLRSchedule object
    optimizer,              \* the SGD object, or its constructor's failure
    ctor_args,              \* history: the arguments of the constructor call
    var, slots,             \* one parameter and its optimizer slots
    steps,                  \* history: one record per apply step
    calls,                  \* history: calls of performance_lr_scheduling
    \* ---- one call of the augmentation worker
    aug_in, aug_out

pipeVars == <<train_ds, test_ds, pc, phase, epoch, step, images, labels, q, q2,
              isFirst, threads, t, slot_src, batch_ds, cur, log, error, prev_test_accuracy,
              test_accuracy>>
optVars == <<optimizer, ctor_args, var, slots, steps>>
schedVars == <<learning_rate_fn, calls>>
augVars == <<aug_in, aug_out>>
vars == <<pipeVars, optVars, schedVars, augVars>>

(***************************************************************************)
(* Bounds of the model.                                                    *)
(***************************************************************************)
\* BATCH_SIZE is 128 in main.py:25; the model runs the same code on batches
\* of this many samples.
BATCH_SIZE == 3
\* most records in the training / evaluation dataset
MaxTrain == 7
MaxTest == 4
\* epochs modelled (NUM_EPOCHS is 90)
MaxEpochs == 2
\* most images in the raw batch of SpecAug
MaxN == 3
\* most apply steps and stagnation signals in SpecOpt
MaxSteps == 3
MaxStagnation == 2

(***************************************************************************)
(* Program constants.                                                      *)
(***************************************************************************)
NUM_EPOCHS == 90
INPUT_IMAGE_SIZE == 227
\* the literals of the evaluation slices: image[29:, ...], image[15:242, ...]
SliceOffset == 29
CenterStart == 15
CenterStop == 242

Min(a, b) == IF a < b THEN a ELSE b
Max(a, b) == IF a > b THEN a ELSE b

(***************************************************************************)
(* Images.  An image is its shape [h, w] (three channels); a crop records  *)
(* its shape, where it was taken and whether from the mirrored image.      *)
(* Raise is the value of a call that raised an exception.                  *)
(***************************************************************************)
Raise == [raised |-> TRUE]
Ok(v) == [raised |-> FALSE, val |-> v]
Raised(x) == x.raised

\* tf.image.random_crop(image, size=[S, S, 3]): raises unless the image is at
\* least S x S; the offset is uniform in 0 .. dim - S.  rnd \in 0..1 draws one
\* of the two extreme offsets on each axis.
RandomDraws == {0, 1}

\* a crop that takes what the image has when it is smaller than the size
random_crop_clipped(image, flip, size, rnd) ==
    Ok([h |-> Min(size, image.h), w |-> Min(size, image.w),
        top |-> rnd * Max(image.h - size, 0),
        left |-> (1 - rnd) * Max(image.w - size, 0),
        flip |-> flip])

random_crop(image, flip, size, rnd) ==
    IF image.h < size \/ image.w < size THEN Raise
    ELSE Ok([h |-> size, w |-> size,
             top |-> rnd * (image.h - size),
             left |-> (1 - rnd) * (image.w - size),
             flip |-> flip])

\* image[r0:r1, c0:c1] with Python's clipping of slice bounds
Slice(image, flip, r0, r1, c0, c1) ==
    LET rs == Min(r0, image.h)
        re == Min(r1, image.h)
        cs == Min(c0, image.w)
        ce == Min(c1, image.w)
    IN  [h |-> Max(re - rs, 0), w |-> Max(ce - cs, 0),
         top |-> rs, left |-> cs, flip |-> flip]

\* tf.stack: raises unless all the tensors have the same shape
stack(crops) ==
    IF \A i, j \in 1..Len(crops) : crops[i].h = crops[j].h /\ crops[i].w = crops[j].w
    THEN Ok(crops) ELSE Raise

\* the five slices of the evaluation branch, in the order they are appended
FiveCrops(image, flip) ==
    LET S == INPUT_IMAGE_SIZE
        End == Max(image.h, image.w) + 1     \* an open slice end
    IN  << Slice(image, flip, 0, S, 0, S),                             \* topleft
           Slice(image, flip, SliceOffset, End, 0, S),                 \* topright
           Slice(image, flip, 0, S, SliceOffset, End),                 \* bottomleft
           Slice(image, flip, SliceOffset, End, SliceOffset, End),     \* bottomright
           Slice(image, flip, CenterStart, CenterStop, CenterStart, CenterStop) >>

image_cropping(image, training, rnd) ==
    IF training
    THEN LET c1 == random_crop(image, FALSE, INPUT_IMAGE_SIZE, rnd)
             c2 == random_crop(image, TRUE, INPUT_IMAGE_SIZE, 1 - rnd)
         IN  IF Raised(c1) \/ Raised(c2) THEN Raise ELSE stack(<<c1.val, c2.val>>)
    ELSE stack(FiveCrops(image, FALSE) \o FiveCrops(image, TRUE))

\* the label appended once per image instead of once per crop
crop_labels_once(cropped, label) == <<label>>

\* the labels img_preprocessing appends for image i: one per crop
crop_labels(cropped, label) == [j \in 1..Len(cropped) |-> label]

\* the loop of img_preprocessing from image i on: the lists (test_images,
\* test_labels), or Raise when a call of image_cropping raised
RECURSIVE preprocess_loop(_, _, _, _, _)
preprocess_loop(imgs, lbls, train, rnd, i) ==
    IF i > Len(lbls) THEN Ok(<< <<>>, <<>> >>)
    ELSE LET cropped == image_cropping(imgs[i], train, rnd)
         IN  IF Raised(cropped) THEN Raise
             ELSE LET rest == preprocess_loop(imgs, lbls, train, rnd, i + 1)
                  IN  IF Raised(rest) THEN Raise
                      ELSE Ok(<< cropped.val \o rest.val[1],
                                 crop_labels(cropped.val, lbls[i]) \o rest.val[2] >>)

\* img_preprocessing(q, images, labels, train): the list after the call, or
\* Raise (and the list untouched) when the loop raised
img_preprocessing(list, imgs, lbls, train, rnd) ==
    LET r == preprocess_loop(imgs, lbls, train, rnd, 1)
    IN  IF Raised(r) THEN Raise ELSE Ok(Append(list, r.val))

(***************************************************************************)
(* Datasets.                                                               *)
(***************************************************************************)
\* Dataset.batch(batch_size, drop_remainder)
RECURSIVE batch(_, _, _)
batch(elems, size, drop_remainder) ==
    IF Len(elems) = 0 THEN <<>>
    ELSE IF Len(elems) < size
         THEN (IF drop_remainder THEN <<>> ELSE <<elems>>)
         ELSE <<SubSeq(elems, 1, size)>>
              \o batch(SubSeq(elems, size + 1, Len(elems)), size, drop_remainder)

\* Dataset.shuffle: some order of the elements; the model draws one of two
Shuffles == {"keep", "reverse"}
shuffle(elems, how) ==
    IF how = "keep" THEN elems
    ELSE [i \in 1..Len(elems) |-> elems[Len(elems) + 1 - i]]

\* a batch of (image, label) records as the pair of tensors (images, labels)
Images(recs) == [i \in 1..Len(recs) |-> recs[i].image]
Labels(recs) == [i \in 1..Len(recs) |-> recs[i].label]

\* train_ds / test_ds: the parsed records batched by BATCH_SIZE, the last
\* batch kept when short
dataset(recs) == batch(recs, BATCH_SIZE, FALSE)

\* Dataset.from_tensor_slices((images, labels)): one element per sample;
\* pos is the sample's position in the augmented batch
from_tensor_slices(imgs, lbls) ==
    [i \in 1..Len(lbls) |-> [image |-> imgs[i], label |-> lbls[i], pos |-> i]]

\* the re-batching with the short last sub-batch kept
batch_dataset_keep_remainder(popped, how) ==
    batch(shuffle(from_tensor_slices(popped[1], popped[2]), how), BATCH_SIZE, FALSE)

\* train_batch_ds / test_batch_ds of a popped augmented batch
batch_dataset(popped, how) ==
    batch(shuffle(from_tensor_slices(popped[1], popped[2]), how), BATCH_SIZE, TRUE)

SeqsUpTo(S, n) == UNION {[1..k -> S] : k \in 0..n}

(***************************************************************************)
(* The learning-rate schedule (AlexNetLRSchedule) and the call that        *)
(* signals a stagnation.                                                   *)
(*                                                                         *)
(* Numbers are exact fixed-point integers: Unit gives, for each kind of    *)
(* quantity, the integer that stands for 1.0.  Gradients are whole numbers.*)
(* With these units every product and halving within the bounds is exact.  *)
(***************************************************************************)
Unit == [momentum |-> 10, weight_decay |-> 10000, lr |-> 8000, w |-> 80000000]

AlexNetLRSchedule(initial_learning_rate) ==
    [initial_learning_rate |-> initial_learning_rate, cnt |-> 0]

cnt_up_num_of_statinary_loss(sched) == [sched EXCEPT !.cnt = @ + 1]

RECURSIVE Halve(_, _)
Halve(x, n) == IF n = 0 THEN x ELSE Halve(x \div 2, n - 1)

\* learning_rate_fn(step): the rate the optimizer reads at a step
current_rate(sched) == Halve(sched.initial_learning_rate, sched.cnt)

\* LEARNING_RATE = 0.02
LEARNING_RATE == (2 * Unit.lr) \div 100

\* a scheduling call that does not reach the schedule
performance_lr_scheduling_lost(sched) == sched
\* performance_lr_scheduling(): learning_rate_fn.cnt_up_num_of_statinary_loss()
performance_lr_scheduling(sched) == cnt_up_num_of_statinary_loss(sched)

(***************************************************************************)
(* The epoch loop of main.py.                                              *)
(***************************************************************************)
GoodImage == [h |-> 256, w |-> 256]
SmallImage == [h |-> 200, w |-> 256]
PipeRecords == {[image |-> GoodImage, label |-> 0], [image |-> SmallImage, label |-> 1]}

\* test_accuracy.result() at the end of an epoch, in percent
Accuracies == {0, 50}

NoThread == [state |-> "none", list |-> "q", src |-> 0, images |-> <<>>,
             labels |-> <<>>, train |-> FALSE]
Thread(list, src, imgs, lbls, train) ==
    [state |-> "running", list |-> list, src |-> src, images |-> imgs,
     labels |-> lbls, train |-> train]
Finished(th) == th.state \in {"done", "failed"}

Ev(e, src, k) == [ev |-> e, src |-> src, k |-> k]

CurName == IF phase = "train" THEN "q" ELSE "q2"
CurList == IF phase = "train" THEN q ELSE q2
CurDs == IF phase = "train" THEN train_ds ELSE test_ds
SetList(name, v) ==
    IF name = "q" THEN q' = v /\ q2' = q2 ELSE q2' = v /\ q' = q

optInit ==
    /\ optimizer = [state |-> "none"]
    /\ ctor_args = [state |-> "none"]
    /\ var = 0
    /\ slots = [momentum |-> 0, weight_decay |-> 0, names |-> {}]
    /\ steps = <<>>
augInit ==
    /\ aug_in = [state |-> "none"]
    /\ aug_out = [state |-> "none"]
loopInit ==
    /\ pc = "epoch" /\ phase = "train" /\ epoch = 0 /\ step = 0
    /\ images = <<>> /\ labels = <<>>
    /\ q = <<>> /\ q2 = <<>> /\ isFirst = TRUE
    /\ threads = <<>> /\ t = 0 /\ slot_src = <<>>
    /\ batch_ds = <<>> /\ cur = [src |-> 0, len |-> 0, n |-> 0, done |-> <<>>]
    /\ log = <<>> /\ error = "none"
    /\ prev_test_accuracy = -1 /\ test_accuracy = 0
pipeInit ==
    /\ train_ds = <<>> /\ test_ds = <<>>
    /\ loopInit
schedInit ==
    /\ learning_rate_fn = AlexNetLRSchedule(LEARNING_RATE)
    /\ calls = 0

\* the state at `for epoch in range(NUM_EPOCHS)`, the datasets built
Init ==
    /\ optInit /\ augInit /\ schedInit /\ loopInit
    /\ train_ds \in {dataset(r) : r \in SeqsUpTo(PipeRecords, MaxTrain)}
    /\ test_ds \in {dataset(r) : r \in SeqsUpTo(PipeRecords, MaxTest)}

\* the top of the epoch loop down to `q = list(); isFirst = True`
EpochStart ==
    /\ pc = "epoch"
    /\ epoch < Min(NUM_EPOCHS, MaxEpochs)
    /\ test_accuracy' = 0
    /\ q' = <<>> /\ isFirst' = TRUE
    /\ phase' = "train" /\ step' = 0
    /\ threads' = <<>> /\ t' = 0 /\ slot_src' = <<>> /\ log' = <<>>
    /\ pc' = "for"
    /\ UNCHANGED <<train_ds, test_ds, epoch, images, labels, q2, batch_ds, cur,
                   error, prev_test_accuracy>>
    /\ UNCHANGED <<optVars, schedVars, augVars>>

\* `for step, (images, labels) in enumerate(ds)`: the next raw batch, or the
\* end of the loop
Fetch ==
    /\ pc = "for"
    /\ IF step < Len(CurDs)
       THEN /\ images' = Images(CurDs[step + 1])
            /\ labels' = Labels(CurDs[step + 1])
            /\ step' = step + 1
            /\ log' = Append(log, Ev("fetch", step + 1, 0))
            /\ pc' = IF isFirst THEN "first_start" ELSE "pop"
       ELSE /\ pc' = "last_pop"
            /\ UNCHANGED <<images, labels, step, log>>
    /\ UNCHANGED <<train_ds, test_ds, phase, epoch, q, q2, isFirst, threads, t,
                   slot_src, batch_ds, cur, error, prev_test_accuracy,
                   test_accuracy>>
    /\ UNCHANGED <<optVars, schedVars, augVars>>

\* t = threading.Thread(target=img_preprocessing, args=(q, images, labels, train));
\* t.start()
StartThread(nextpc) ==
    /\ threads' = Append(threads, Thread(CurName, step, images, labels, phase = "train"))
    /\ t' = Len(threads) + 1
    /\ log' = Append(log, Ev("start", step, 0))
    /\ pc' = nextpc
    /\ UNCHANGED <<train_ds, test_ds, phase, epoch, step, images, labels, q, q2,
                   isFirst, slot_src, batch_ds, cur, error, prev_test_accuracy,
                   test_accuracy>>
    /\ UNCHANGED <<optVars, schedVars, augVars>>

\* the isFirst branch: create and start the thread
FirstStart ==
    /\ pc = "first_start"
    /\ StartThread("first_join")

\* the isFirst branch without `isFirst = False`
FirstJoin_keepFirst ==
    /\ pc = "first_join"
    /\ Finished(threads[t])
    /\ log' = Append(log, [ev |-> "join", src |-> threads[t].src, k |-> 0])
    /\ pc' = "for"
    /\ UNCHANGED <<train_ds, test_ds, phase, epoch, step, images, labels, q, q2,
                   isFirst, threads, t, slot_src, batch_ds, cur, error,
                   prev_test_accuracy, test_accuracy>>
    /\ UNCHANGED <<optVars, schedVars, augVars>>

\* the isFirst branch: t.join(); isFirst = False.  join returns when the
\* thread has ended, also when it ended with an exception
FirstJoin ==
    /\ pc = "first_join"
    /\ Finished(threads[t])
    /\ isFirst' = FALSE
    /\ log' = Append(log, Ev("join", threads[t].src, 0))
    /\ pc' = "for"
    /\ UNCHANGED <<train_ds, test_ds, phase, epoch, step, images, labels, q, q2,
                   threads, t, slot_src, batch_ds, cur, error,
                   prev_test_accuracy, test_accuracy>>
    /\ UNCHANGED <<optVars, schedVars, augVars>>

\* a pop that leaves the item in the list (reads q[-1])
pop_rest_peek(list) == list
\* list.pop() on a non-empty list: the list it leaves
pop_rest(list) == SubSeq(list, 1, Len(list) - 1)

\* images, labels = q.pop() and the building of the sub-batch dataset;
\* list.pop() of an empty list raises IndexError, which nothing catches
PopAndBatch(nextpc) ==
    /\ IF CurList = <<>>
       THEN /\ pc' = "aborted"
            /\ error' = "IndexError"
            /\ UNCHANGED <<q, q2, slot_src, batch_ds, cur, log>>
       ELSE LET n == Len(CurList)
                popped == CurList[n]
            IN  /\ SetList(CurName, pop_rest(CurList))
                /\ slot_src' = pop_rest(slot_src)
                /\ \E how \in Shuffles : batch_ds' = batch_dataset(popped, how)
                /\ cur' = [src |-> slot_src[Len(slot_src)], len |-> Len(popped[2]),
                           n |-> 0, done |-> <<>>]
                /\ log' = Append(log, Ev("pop", slot_src[Len(slot_src)], 0))
                /\ pc' = nextpc
                /\ error' = error
    /\ UNCHANGED <<train_ds, test_ds, phase, epoch, step, images, labels, isFirst,
                   threads, t, prev_test_accuracy, test_accuracy>>
    /\ UNCHANGED <<optVars, schedVars, augVars>>

\* the else branch going from the pop straight to the sub-batch loop, no
\* thread created for the new raw batch
Pop_noStart ==
    /\ pc = "pop"
    /\ PopAndBatch("steps")

\* the else branch: pop the augmented batch and re-batch it
Pop ==
    /\ pc = "pop"
    /\ PopAndBatch("start")

\* the else branch: create and start the thread for the new raw batch
Start ==
    /\ pc = "start"
    /\ StartThread("steps")

\* train_step / test_step on the next sub-batch
Step ==
    /\ pc \in {"steps", "last_steps"}
    /\ batch_ds # <<>>
    /\ batch_ds' = Tail(batch_ds)
    /\ cur' = [cur EXCEPT !.n = @ + 1,
                          !.done = Append(@, [i \in 1..Len(batch_ds[1]) |->
                                                 batch_ds[1][i].pos])]
    /\ log' = Append(log, Ev("step", cur.src, cur.n + 1))
    /\ UNCHANGED <<train_ds, test_ds, pc, phase, epoch, step, images, labels, q, q2,
                   isFirst, threads, t, slot_src, error, prev_test_accuracy,
                   test_accuracy>>
    /\ UNCHANGED <<optVars, schedVars, augVars>>

\* the else branch: t.join() after the sub-batch loop
Join ==
    /\ pc = "steps"
    /\ batch_ds = <<>>
    /\ Finished(threads[t])
    /\ log' = Append(log, Ev("join", threads[t].src, 0))
    /\ pc' = "for"
    /\ UNCHANGED <<train_ds, test_ds, phase, epoch, step, images, labels, q, q2,
                   isFirst, threads, t, slot_src, batch_ds, cur, error,
                   prev_test_accuracy, test_accuracy>>
    /\ UNCHANGED <<optVars, schedVars, augVars>>

\* a drain that pops only when the list holds an item
LastPop_skipEmpty ==
    /\ pc = "last_pop"
    /\ IF CurList = <<>>
       THEN /\ pc' = "last_steps"
            /\ batch_ds' = <<>>
            /\ UNCHANGED <<train_ds, test_ds, phase, epoch, step, images, labels, q, q2,
                           isFirst, threads, t, slot_src, cur, log, error,
                           prev_test_accuracy, test_accuracy>>
            /\ UNCHANGED <<optVars, schedVars, augVars>>
       ELSE PopAndBatch("last_steps")

\* "Last step": the pop after the loop
LastPop ==
    /\ pc = "last_pop"
    /\ PopAndBatch("last_steps")

\* the end of the training phase: q2 = list(); isFirst = True
TrainDone ==
    /\ pc = "last_steps" /\ phase = "train"
    /\ batch_ds = <<>>
    /\ q2' = <<>> /\ isFirst' = TRUE
    /\ phase' = "eval" /\ step' = 0
    /\ threads' = <<>> /\ t' = 0 /\ slot_src' = <<>> /\ log' = <<>>
    /\ pc' = "for"
    /\ UNCHANGED <<train_ds, test_ds, epoch, images, labels, q, batch_ds, cur,
                   error, prev_test_accuracy, test_accuracy>>
    /\ UNCHANGED <<optVars, schedVars, augVars>>

\* the end of the evaluation phase: test_accuracy holds the epoch's result
EvalDone ==
    /\ pc = "last_steps" /\ phase = "eval"
    /\ batch_ds = <<>>
    /\ \E acc \in Accuracies : test_accuracy' = acc
    /\ pc' = "epoch_end"
    /\ UNCHANGED <<train_ds, test_ds, phase, epoch, step, images, labels, q, q2,
                   isFirst, threads, t, slot_src, batch_ds, cur, log, error,
                   prev_test_accuracy>>
    /\ UNCHANGED <<optVars, schedVars, augVars>>

\* the end of an epoch with the comparison `prev_test_accuracy > ...`
EpochEnd_strict ==
    /\ pc = "epoch_end"
    /\ IF prev_test_accuracy > test_accuracy
       THEN /\ learning_rate_fn' = performance_lr_scheduling(learning_rate_fn)
            /\ calls' = calls + 1
       ELSE UNCHANGED schedVars
    /\ prev_test_accuracy' = test_accuracy
    /\ epoch' = epoch + 1
    /\ pc' = "epoch"
    /\ UNCHANGED <<train_ds, test_ds, phase, step, images, labels, q, q2, isFirst,
                   threads, t, slot_src, batch_ds, cur, log, error, test_accuracy>>
    /\ UNCHANGED <<optVars, augVars>>

\* if prev_test_accuracy >= test_accuracy.result(): performance_lr_scheduling()
\* prev_test_accuracy = test_accuracy.result()
EpochEnd ==
    /\ pc = "epoch_end"
    /\ IF prev_test_accuracy >= test_accuracy
       THEN /\ learning_rate_fn' = performance_lr_scheduling(learning_rate_fn)
            /\ calls' = calls + 1
       ELSE UNCHANGED schedVars
    /\ prev_test_accuracy' = test_accuracy
    /\ epoch' = epoch + 1
    /\ pc' = "epoch"
    /\ UNCHANGED <<train_ds, test_ds, phase, step, images, labels, q, q2, isFirst,
                   threads, t, slot_src, batch_ds, cur, log, error, test_accuracy>>
    /\ UNCHANGED <<optVars, augVars>>

\* the background thread runs img_preprocessing; an exception in it ends the
\* thread (threading prints it) and the list is not appended to
ThreadRun ==
    \E i \in 1..Len(threads) :
        /\ threads[i].state = "running"
        /\ \E rnd \in RandomDraws :
             LET th == threads[i]
                 list == IF th.list = "q" THEN q ELSE q2
                 r == img_preprocessing(list, th.images, th.labels, th.train, rnd)
             IN  IF Raised(r)
                 THEN /\ threads' = [threads EXCEPT ![i].state = "failed"]
                      /\ log' = Append(log, Ev("fail", th.src, 0))
                      /\ UNCHANGED <<q, q2, slot_src>>
                 ELSE /\ threads' = [threads EXCEPT ![i].state = "done"]
                      /\ SetList(th.list, r.val)
                      /\ slot_src' = Append(slot_src, th.src)
                      /\ log' = Append(log, Ev("post", th.src, 0))
        /\ UNCHANGED <<train_ds, test_ds, pc, phase, epoch, step, images, labels,
                       isFirst, t, batch_ds, cur, error, prev_test_accuracy,
                       test_accuracy>>
        /\ UNCHANGED <<optVars, schedVars, augVars>>

Next ==
    \/ EpochStart \/ Fetch \/ FirstStart \/ FirstJoin \/ Pop \/ Start \/ Step
    \/ Join \/ LastPop \/ TrainDone \/ EvalDone \/ EpochEnd \/ ThreadRun

Spec == Init /\ [][Next]_vars

(***************************************************************************)
(* One call of the augmentation worker on a drawn raw batch.               *)
(***************************************************************************)
AugShapes == {GoodImage, SmallImage, [h |-> 227, w |-> 300],
              [h |-> 256, w |-> 200], [h |-> 20, w |-> 20]}
AugLabels == {3, 7}
AugRecords == [image : AugShapes, label : AugLabels]

InitAug ==
    /\ optInit /\ schedInit /\ pipeInit
    /\ \E recs \in SeqsUpTo(AugRecords, MaxN), train \in BOOLEAN, rnd \in RandomDraws :
         aug_in = [state |-> "in", images |-> Images(recs), labels |-> Labels(recs),
                   train |-> train, rnd |-> rnd]
    /\ aug_out = [state |-> "none"]

\* img_preprocessing(q, images, labels, train) on an empty list q
Augment ==
    /\ aug_out.state = "none"
    /\ aug_out' = [state |-> "out",
                   result |-> img_preprocessing(<<>>, aug_in.images, aug_in.labels,
                                                aug_in.train, aug_in.rnd)]
    /\ UNCHANGED <<aug_in, pipeVars, optVars, schedVars>>

NextAug == Augment

SpecAug == InitAug /\ [][NextAug]_vars

(***************************************************************************)
(* The optimizer: SGD.__init__, _create_slots, _resource_apply_dense.      *)
(***************************************************************************)
ValueError(message) == [state |-> "ValueError", message |-> message]

\* SGD.__init__ with the momentum flag set by `momentum >= 0`
SGD_momentum_flag_ge(learning_rate, weight_decay, momentum, nesterov) ==
    IF momentum < 0 \/ momentum > Unit.momentum
    THEN ValueError("weight_decay must be between [0, 1].")
    ELSE [state |-> "ok",
          learning_rate |-> learning_rate,
          weight_decay |-> weight_decay,
          momentum |-> momentum,
          nesterov |-> nesterov,
          use_weight_decay |-> weight_decay > 0,
          use_momentum |-> momentum >= 0]

\* SGD.__init__ for numeric momentum and weight_decay
SGD(learning_rate, weight_decay, momentum, nesterov) ==
    LET use_weight_decay == weight_decay > 0
    IN  IF momentum < 0 \/ momentum > Unit.momentum
        THEN ValueError("weight_decay must be between [0, 1].")
        ELSE LET use_momentum == momentum > 0
             IN  IF momentum < 0 \/ momentum > Unit.momentum
                 THEN ValueError("momentum must be between [0, 1].")
                 ELSE [state |-> "ok",
                       learning_rate |-> learning_rate,
                       weight_decay |-> weight_decay,
                       momentum |-> momentum,
                       nesterov |-> nesterov,
                       use_weight_decay |-> use_weight_decay,
                       use_momentum |-> use_momentum]

\* _create_slots: add_slot creates a zero slot unless the slot exists
create_slots(opt, sl) ==
    LET a == IF opt.use_momentum /\ "momentum" \notin sl.names
             THEN [sl EXCEPT !.names = @ \cup {"momentum"}, !.momentum = 0]
             ELSE sl
    IN  IF opt.use_weight_decay /\ "weight_decay" \notin a.names
        THEN [a EXCEPT !.names = @ \cup {"weight_decay"}, !.weight_decay = 0]
        ELSE a

\* lr * grad in the unit of a parameter
LrTimes(lr, grad) == lr * grad * (Unit.w \div Unit.lr)
\* momentum * x
MomentumTimes(momentum, x) == (momentum * x) \div Unit.momentum

\* the momentum update with the sign of the gradient term flipped
resource_apply_keras_momentum_plus(v, accum, lr, grad, momentum, use_nesterov) ==
    LET accum2 == MomentumTimes(momentum, accum) + LrTimes(lr, grad)
    IN  [var |-> IF use_nesterov
                 THEN v + MomentumTimes(momentum, accum2) + LrTimes(lr, grad)
                 ELSE v + accum2,
         accum |-> accum2]

\* training_ops.resource_apply_keras_momentum: the new (var, accum)
resource_apply_keras_momentum(v, accum, lr, grad, momentum, use_nesterov) ==
    LET accum2 == MomentumTimes(momentum, accum) - LrTimes(lr, grad)
    IN  [var |-> IF use_nesterov
                 THEN v + MomentumTimes(momentum, accum2) - LrTimes(lr, grad)
                 ELSE v + accum2,
         accum |-> accum2]

\* training_ops.resource_apply_gradient_descent: the new var
resource_apply_gradient_descent(v, lr, grad) == v - LrTimes(lr, grad)

\* _resource_apply_dense: the new parameter and slots
resource_apply_dense(opt, grad, v, sl, lr_t) ==
    IF opt.use_momentum
    THEN LET r == resource_apply_keras_momentum(v, sl.momentum, lr_t, grad,
                                                opt.momentum, opt.nesterov)
         IN  [var |-> r.var, slots |-> [sl EXCEPT !.momentum = r.accum]]
    ELSE [var |-> resource_apply_gradient_descent(v, lr_t, grad), slots |-> sl]

Momenta == {-1, 0, 9, 10, 11}
WeightDecays == {-5, 0, 5, Unit.weight_decay, 2 * Unit.weight_decay}
InitialRates == {LEARNING_RATE, Unit.lr \div 10}
InitialVars == {0, Unit.w}
Grads == {-1, 2}

InitOpt ==
    /\ augInit /\ pipeInit
    /\ optimizer = [state |-> "none"]
    /\ ctor_args = [state |-> "none"]
    /\ var \in InitialVars
    /\ slots = [momentum |-> 0, weight_decay |-> 0, names |-> {}]
    /\ steps = <<>>
    /\ learning_rate_fn \in {AlexNetLRSchedule(r) : r \in InitialRates}
    /\ calls = 0

\* _optimizer = SGD(learning_rate=learning_rate_fn, momentum=..., weight_decay=...)
Construct ==
    /\ optimizer.state = "none"
    /\ \E m \in Momenta, wd \in WeightDecays, nesterov \in BOOLEAN :
         /\ ctor_args' = [state |-> "called", momentum |-> m, weight_decay |-> wd,
                          nesterov |-> nesterov]
         /\ optimizer' = SGD(learning_rate_fn, wd, m, nesterov)
    /\ UNCHANGED <<var, slots, steps, schedVars, pipeVars, augVars>>

\* _optimizer.apply_gradients(zip(gradients, variables)) for the one
\* parameter: slots are created on the first call, lr_t is read from the
\* schedule, then _resource_apply_dense
ApplyGradients ==
    /\ optimizer.state = "ok"
    /\ Len(steps) < MaxSteps
    /\ \E grad \in Grads :
         LET sl == create_slots(optimizer, slots)
             lr_t == current_rate(learning_rate_fn)
             r == resource_apply_dense(optimizer, grad, var, sl, lr_t)
         IN  /\ var' = r.var
             /\ slots' = r.slots
             /\ steps' = Append(steps,
                    [grad |-> grad, lr |-> lr_t, calls |-> calls,
                     var0 |-> var, var1 |-> r.var,
                     accum0 |-> sl.momentum, accum1 |-> r.slots.momentum])
    /\ UNCHANGED <<optimizer, ctor_args, schedVars, pipeVars, augVars>>

\* the epoch loop signals a stagnation
Stagnation ==
    /\ optimizer.state = "ok"
    /\ calls < MaxStagnation
    /\ learning_rate_fn' = performance_lr_scheduling(learning_rate_fn)
    /\ calls' = calls + 1
    /\ UNCHANGED <<optVars, pipeVars, augVars>>

NextOpt == Construct \/ ApplyGradients \/ Stagnation

SpecOpt == InitOpt /\ [][NextOpt]_vars

(***************************************************************************)
(* Properties of the pipeline (specification Spec).                        *)
(***************************************************************************)
Events(e) == {i \in 1..Len(log) : log[i].ev = e}
Count(e, src) == Cardinality({i \in Events(e) : log[i].src = src})
StepCount(src, k) == Cardinality({i \in Events("step") : log[i].src = src /\ log[i].k = k})
Running == {i \in 1..Len(threads) : threads[i].state = "running"}
\* the phase has run to its end: the drain's sub-batch loop is over
PhaseDone == pc = "last_steps" /\ batch_ds = <<>>
\* crops per image in the current phase
Variants == IF phase = "train" THEN 2 ELSE 10
\* sub-batches of the augmented batch made from raw batch s
SubBatches(s) == (Variants * Len(CurDs[s])) \div BATCH_SIZE

\* C1: in a phase whose source yields K raw batches, no augmented batch is
\* popped twice and no sub-batch is stepped twice; when the phase has run to
\* its end the worker was started exactly once for each of the K raw batches,
\* each posted its batch, each batch was popped exactly once and all its
\* sub-batches were stepped once, and the slot is empty.
C1_EachBatchOnce ==
    /\ \A s \in 1..Len(CurDs) :
         /\ Count("start", s) <= 1
         /\ Count("pop", s) <= 1
         /\ \A k \in 1..SubBatches(s) : StepCount(s, k) <= 1
    /\ \A i \in 1..Len(log) : log[i].src \in 1..Len(CurDs)
    /\ PhaseDone =>
         /\ Cardinality(Events("start")) = Len(CurDs)
         /\ CurList = <<>>
         /\ \A s \in 1..Len(CurDs) :
              /\ Count("start", s) = 1
              /\ Count("post", s) = 1
              /\ Count("pop", s) = 1
              /\ Cardinality({i \in Events("step") : log[i].src = s}) = SubBatches(s)
              /\ \A k \in 1..SubBatches(s) : StepCount(s, k) = 1

\* C1 witness: a phase of three raw batches has run to its end.
C1_Witness == PhaseDone /\ Len(CurDs) = 3 /\ Cardinality(Events("step")) >= 3

\* C2: at most one augmentation thread is running, each slot list holds at
\* most one item, the list a running thread will append to is empty, and
\* every batch posted before a thread is started was popped before that start.
C2_OneInFlight ==
    /\ Cardinality(Running) <= 1
    /\ Len(q) <= 1 /\ Len(q2) <= 1
    /\ \A i \in Running : (IF threads[i].list = "q" THEN q ELSE q2) = <<>>
    /\ \A i \in Events("start") : \A j \in Events("post") :
         j < i => \E k \in Events("pop") : j < k /\ k < i /\ log[k].src = log[j].src

\* C2 witness: the thread for the second raw batch is running, after the
\* first augmented batch was popped.
C2_Witness ==
    /\ \E i \in Running : threads[i].src = 2
    /\ Count("pop", 1) = 1

\* C3: the slot is never popped while a thread is running, each pop comes
\* after the join of the thread that posted the popped batch, and when the
\* loop goes on to fetch the next raw batch the running thread has ended and
\* the slot holds its batch.
C3_JoinBeforePop ==
    /\ pc \in {"pop", "last_pop"} => Running = {}
    /\ \A i \in Events("pop") :
         \E j \in Events("join") : j < i /\ log[j].src = log[i].src
    /\ (pc = "for" /\ ~isFirst) => Running = {} /\ Len(CurList) = 1

\* The part of C3 that is about the interleaving alone: no pop while a
\* thread runs, and each pop after the join of the thread that posted.
C3_NoRace ==
    /\ pc \in {"pop", "last_pop"} => Running = {}
    /\ \A i \in Events("pop") :
         \E j \in Events("join") : j < i /\ log[j].src = log[i].src

\* joins of a thread that ended with an exception
FailedJoins ==
    {i \in Events("join") : \E j \in Events("fail") : j < i /\ log[j].src = log[i].src}

\* C4: once a thread that failed has been joined, the main loop has stopped
\* with the thread's exception, and no training/eval step follows that join.
C4_FailureSurfacesAtJoin ==
    \A i \in FailedJoins :
        /\ pc = "aborted" /\ error = "TaskError"
        /\ \A k \in Events("step") : k < i

\* What the program does after joining a failed thread: no step follows the
\* join, and the run ends at the next pop with IndexError.
C4_NoStepAfterFailedJoin ==
    \A i \in FailedJoins :
        /\ \A k \in Events("step") : k < i
        /\ pc \in {"for", "pop", "last_pop", "aborted"}
        /\ pc = "aborted" => error = "IndexError"

\* the main loop holds a popped augmented batch
Consuming == pc \in {"start", "steps", "join", "last_steps"} /\ cur.src > 0

\* the samples (positions in the popped batch) that a step has processed
Stepped == {cur.done[k][i] : k \in 1..Len(cur.done), i \in 1..BATCH_SIZE}

\* C14: a popped augmented batch of L samples is consumed in sub-batches of
\* exactly BATCH_SIZE samples: L \div BATCH_SIZE sub-batches in all, one step
\* each, no sample in two of them, and once they are consumed exactly
\* L % BATCH_SIZE samples have been given to no step.
C14_SubBatchesOfBatchSize ==
    Consuming =>
        LET L == cur.len IN
        /\ cur.n = Len(cur.done)
        /\ cur.n = Count("step", cur.src)
        /\ cur.n + Len(batch_ds) = L \div BATCH_SIZE
        /\ \A k \in 1..Len(cur.done) :
             /\ Len(cur.done[k]) = BATCH_SIZE
             /\ \A i \in 1..BATCH_SIZE : cur.done[k][i] \in 1..L
        /\ \A k1, k2 \in 1..Len(cur.done) : \A i1, i2 \in 1..BATCH_SIZE :
             cur.done[k1][i1] = cur.done[k2][i2] => (k1 = k2 /\ i1 = i2)
        /\ batch_ds = <<>> =>
             /\ cur.n = L \div BATCH_SIZE
             /\ Cardinality((1..L) \ Stepped) = L % BATCH_SIZE
             /\ L < BATCH_SIZE => cur.n = 0

\* C14 witness: a popped batch whose size is not a multiple of BATCH_SIZE
\* has been consumed with at least one step, a sample left over.
C14_Witness ==
    /\ Consuming /\ pc \in {"steps", "last_steps"} /\ batch_ds = <<>>
    /\ cur.len % BATCH_SIZE # 0
    /\ cur.n >= 1

\* an event e of raw batch src is in the log before position p
Before(p, e, src) == \E j \in 1..(p - 1) : log[j].ev = e /\ log[j].src = src

\* C15: in a phase of K >= 1 raw batches, every step comes after the first
\* task has posted and been joined; a step on augmented batch i < K runs
\* when the task for raw batch i+1 has been started and not yet joined; a
\* step on augmented batch K runs in the drain, when the source is
\* exhausted, K tasks have been started and every one of them is joined.
C15_PrimingSteadyDrain ==
    LET K == Len(CurDs) IN
    /\ \A p \in Events("step") :
         LET i == log[p].src IN
         /\ i \in 1..K
         /\ Before(p, "post", 1) /\ Before(p, "join", 1)
         /\ i < K => /\ Before(p, "start", i + 1)
                     /\ ~Before(p, "join", i + 1)
         /\ i = K => /\ \A s \in 1..K : Before(p, "start", s) /\ Before(p, "join", s)
                     /\ \A j \in Events("start") : j < p
                     /\ \A j \in Events("fetch") : j < p
    /\ pc = "steps" =>
         /\ cur.src = step - 1 /\ cur.src < K
         /\ threads[t].src = step /\ Count("join", step) = 0
    /\ pc = "last_steps" =>
         /\ step = K /\ cur.src = K
         /\ Running = {}
         /\ \A s \in 1..K : Count("start", s) = 1 /\ Count("join", s) = 1

\* C15 witness: a phase of two raw batches has run to its end with steps on
\* the first augmented batch (steady state) and on the second (drain).
C15_Witness ==
    /\ PhaseDone /\ Len(CurDs) = 2
    /\ Count("step", 1) >= 1 /\ Count("step", 2) >= 1

\* the run is inside a phase (between its `q = list()` and its last step)
InPhase == pc \notin {"epoch", "epoch_end"}

\* C16: in a phase whose source yields no raw batch, no thread is started
\* and no step is taken; the loop falls through to the drain, whose pop of
\* the empty list ends the run with IndexError.  The phase is not skipped:
\* the run gets past a phase only if its source was not empty.
C16_EmptySourceAborts ==
    /\ (InPhase /\ Len(CurDs) = 0) =>
         /\ pc \in {"for", "last_pop", "aborted"}
         /\ threads = <<>> /\ Events("start") = {} /\ Events("step") = {}
         /\ CurList = <<>> /\ step = 0
         /\ pc = "aborted" => error = "IndexError"
    /\ (pc = "aborted") = (error # "none")
    /\ (phase = "eval" \/ epoch > 0) => Len(train_ds) > 0
    /\ (pc = "epoch_end" \/ epoch > 0) => Len(test_ds) > 0

\* C16 witness: after a training phase that ran to its end, the evaluation
\* phase of an empty test dataset has aborted at its drain.
C16_Witness ==
    /\ pc = "aborted" /\ error = "IndexError"
    /\ phase = "eval" /\ Len(test_ds) = 0
    /\ threads = <<>>

\* the step that ends an epoch
EndsEpoch == pc = "epoch_end" /\ pc' # "epoch_end"

\* what one step does to the stagnation count and the remembered accuracy
C13_Step ==
    /\ EndsEpoch =>
         /\ test_accuracy <= prev_test_accuracy =>
                /\ calls' = calls + 1
                /\ learning_rate_fn'.cnt = learning_rate_fn.cnt + 1
         /\ test_accuracy > prev_test_accuracy =>
                /\ calls' = calls
                /\ learning_rate_fn'.cnt = learning_rate_fn.cnt
         /\ epoch = 0 => calls' = calls
         /\ prev_test_accuracy' = test_accuracy
    /\ ~EndsEpoch =>
         /\ calls' = calls
         /\ learning_rate_fn'.cnt = learning_rate_fn.cnt
         /\ prev_test_accuracy' = prev_test_accuracy

\* C13: the step that ends an epoch sends the stagnation signal exactly once
\* when the epoch's evaluation accuracy is not greater than the remembered
\* one and not at all otherwise, never at the end of the first epoch, and it
\* replaces the remembered accuracy by the current one; no other step changes
\* the stagnation count or the remembered accuracy.
C13_StagnationSignal == [][C13_Step]_vars

\* C13 witness: the second epoch has ended with the same accuracy as the
\* first, and the one signal was sent.
C13_Witness ==
    /\ pc = "epoch" /\ epoch = 2
    /\ calls = 1 /\ learning_rate_fn.cnt = 1
    /\ prev_test_accuracy = 50 /\ test_accuracy = 50

TooSmall(image) == image.h < INPUT_IMAGE_SIZE \/ image.w < INPUT_IMAGE_SIZE

\* C11: a raw batch holding an image smaller than the crop size along either
\* axis makes the worker fail, in training and in evaluation mode alike: the
\* cropping of such an image raises instead of returning crops, and nothing
\* is appended to the slot list.
C11_SmallImageFails ==
    aug_out.state = "out" =>
        /\ \A i \in 1..Len(aug_in.labels) :
             TooSmall(aug_in.images[i]) =>
                 Raised(image_cropping(aug_in.images[i], aug_in.train, aug_in.rnd))
        /\ (\E i \in 1..Len(aug_in.labels) : TooSmall(aug_in.images[i])) =>
               Raised(aug_out.result)

\* C11 witness: an evaluation-mode call has failed on a batch whose only
\* undersized image is tall enough but too narrow.
C11_Witness ==
    /\ aug_out.state = "out" /\ Raised(aug_out.result)
    /\ ~aug_in.train
    /\ Len(aug_in.labels) = 2
    /\ aug_in.images[1] = GoodImage
    /\ aug_in.images[2].h >= INPUT_IMAGE_SIZE /\ aug_in.images[2].w < INPUT_IMAGE_SIZE

LargeEnough(image) == ~TooSmall(image)

\* the five crop positions of an h x w image in the order the evaluation
\* branch appends them: <<top, left>> with 0 for a left/top crop, the
\* dimension minus the crop size for a right/bottom crop, and c for the center
CropStarts(image, c) ==
    LET dh == image.h - INPUT_IMAGE_SIZE
        dw == image.w - INPUT_IMAGE_SIZE
    IN  << <<0, 0>>, <<dh, 0>>, <<0, dw>>, <<dh, dw>>, c >>

\* the ten crops are crop x crop and start where CropStarts says, the five
\* of the image first and then the five of the mirrored image
TenCropsAt(res, image, c) ==
    /\ ~Raised(res)
    /\ Len(res.val) = 10
    /\ \A k \in 1..10 :
         LET crop == res.val[k]
             at == CropStarts(image, c)[((k - 1) % 5) + 1]
         IN  /\ crop.h = INPUT_IMAGE_SIZE /\ crop.w = INPUT_IMAGE_SIZE
             /\ crop.top = at[1] /\ crop.left = at[2]
             /\ crop.flip = (k > 5)

\* C12: in evaluation mode every image of at least crop x crop gives ten
\* crop x crop crops, the left/top ones starting at 0, the right/bottom ones
\* at the dimension minus the crop size and the center one at half of that
\* (rounded either way), stacked into a (10, crop, crop, channels) tensor.
C12_AnyLargeImage ==
    (aug_out.state = "out" /\ ~aug_in.train) =>
        \A i \in 1..Len(aug_in.labels) :
            LET image == aug_in.images[i]
                res == image_cropping(image, FALSE, aug_in.rnd)
            IN  LargeEnough(image) =>
                  \E ch \in {(image.h - INPUT_IMAGE_SIZE) \div 2,
                              (image.h - INPUT_IMAGE_SIZE + 1) \div 2} :
                  \E cw \in {(image.w - INPUT_IMAGE_SIZE) \div 2,
                              (image.w - INPUT_IMAGE_SIZE + 1) \div 2} :
                      TenCropsAt(res, image, <<ch, cw>>)

\* What holds of the evaluation crops: a 256 x 256 image gives the ten
\* 227 x 227 crops at 0, 29 and 15, and every other image raises.
C12_Crops256Only ==
    (aug_out.state = "out" /\ ~aug_in.train) =>
        \A i \in 1..Len(aug_in.labels) :
            LET image == aug_in.images[i]
                res == image_cropping(image, FALSE, aug_in.rnd)
            IN  IF image = GoodImage
                THEN TenCropsAt(res, image, <<CenterStart, CenterStart>>)
                ELSE Raised(res)

(***************************************************************************)
(* Properties of the optimizer and the schedule (specification SpecOpt).   *)
(***************************************************************************)
InRange(x, one) == 0 <= x /\ x <= one

\* C5: construction succeeds exactly when momentum is in [0,1] and
\* weight_decay is in [0,1], and fails with a ValueError otherwise.
C5_BothValidated ==
    ctor_args.state = "called" =>
        /\ optimizer.state \in {"ok", "ValueError"}
        /\ optimizer.state = "ok" <=>
             /\ InRange(ctor_args.momentum, Unit.momentum)
             /\ InRange(ctor_args.weight_decay, Unit.weight_decay)

\* What the constructor does validate: the momentum alone.
C5_MomentumValidated ==
    ctor_args.state = "called" =>
        (optimizer.state = "ok" <=> InRange(ctor_args.momentum, Unit.momentum))

\* lr * grad in the unit of a parameter, times Unit.momentum
TenLrGrad(st) == Unit.momentum * st.lr * st.grad * (Unit.w \div Unit.lr)
OneTenth == Unit.lr \div 10
Hundredth == Unit.w \div 100

WithoutDecay(i) ==
    resource_apply_dense(
        SGD(optimizer.learning_rate, 0, optimizer.momentum, optimizer.nesterov),
        steps[i].grad, steps[i].var0,
        [momentum |-> steps[i].accum0, weight_decay |-> 0, names |-> slots.names],
        steps[i].lr).var

\* C7: with weight_decay > 0 a step on a non-zero parameter uses
\* g + weight_decay * w for g, so its result differs from that of the same
\* step with weight_decay = 0.
C7_DecayChangesUpdate ==
    (optimizer.state = "ok" /\ optimizer.weight_decay > 0) =>
        \A i \in 1..Len(steps) :
            steps[i].var0 # 0 => steps[i].var1 # WithoutDecay(i)

\* What the steps do with weight_decay > 0: the slot is created and stays
\* zero, and the result is that of the step without decay.
C7_DecayIgnored ==
    (optimizer.state = "ok" /\ optimizer.weight_decay > 0) =>
        /\ slots.weight_decay = 0
        /\ \A i \in 1..Len(steps) : steps[i].var1 = WithoutDecay(i)

\* C8: with momentum = 0 every step changes the parameter by exactly
\* -lr * g whatever came before, no momentum slot exists and no slot ever
\* holds a value, and steps with the same gradient at the same rate make the
\* same change.
C8_PlainDescent ==
    (optimizer.state = "ok" /\ optimizer.momentum = 0) =>
        /\ \A i \in 1..Len(steps) :
             /\ Unit.momentum * (steps[i].var1 - steps[i].var0) = -TenLrGrad(steps[i])
             /\ i > 1 => steps[i].var0 = steps[i - 1].var1
             /\ steps[i].accum0 = 0 /\ steps[i].accum1 = 0
        /\ "momentum" \notin slots.names
        /\ slots.momentum = 0 /\ slots.weight_decay = 0
        /\ \A i, j \in 1..Len(steps) :
             (steps[i].grad = steps[j].grad /\ steps[i].lr = steps[j].lr) =>
                 steps[i].var1 - steps[i].var0 = steps[j].var1 - steps[j].var0

\* C8 witness: two steps with the same gradient and rate, momentum = 0.
C8_Witness ==
    /\ optimizer.state = "ok" /\ optimizer.momentum = 0
    /\ Len(steps) >= 2
    /\ steps[1].grad = steps[2].grad /\ steps[1].lr = steps[2].lr
    /\ steps[2].var1 # steps[1].var0

ExactArithmetic ==
    /\ \A i \in 1..Len(steps) :
         /\ optimizer.state = "ok" =>
              /\ (optimizer.momentum * steps[i].accum0) % Unit.momentum = 0
              /\ (optimizer.momentum * steps[i].accum1) % Unit.momentum = 0
    /\ \A n \in 1..learning_rate_fn.cnt :
         2 * Halve(learning_rate_fn.initial_learning_rate, n)
           = Halve(learning_rate_fn.initial_learning_rate, n - 1)

====
